---- MODULE Spec2Model ----
(***************************************************************************)
(* mongoose-test-factory: the document builder (Factory), its generator    *)
(* registry, the type generators, the schema analyzer and the relationship *)
(* manager, as a state machine.                                            *)
(*                                                                         *)
(* A factory is configured (count / with / withRelated / trait) and then   *)
(* one of build / make / create runs.  The terminal operations are modelled *)
(* one step per schema field, per document and per insert batch; between   *)
(* the start of a terminal operation and its return no other operation is  *)
(* enabled, as in the single-threaded source.                              *)
(***************************************************************************)
EXTENDS Integers, Sequences, FiniteSets, TLC

VARIABLES
    schema,       \* state.model.schema: the paths of the schema, in declaration order
    options,      \* state.options (the FactoryOptions given to the constructor)
    env,          \* the host: the referenced model as registered, the plugin's seed
    count,        \* state.count
    overrides,    \* state.overrides: field |-> value
    traits,       \* state.traits
    relations,    \* state.relations: field |-> count
    ctx,          \* state.context: index, fieldPath, totalCount
    thrown,       \* the error the last fluent call raised synchronously ("" when none)
    pc,           \* position of the running terminal operation
    op,           \* the terminal operation that runs or ran
    documents,    \* documents[] of generateDocuments / generateDocumentsSync
    cur,          \* the document being assembled
    fieldIdx,     \* next entry of analysis.fields to visit for cur
    genLog,       \* the field values produced so far: document index, field, producer
    batchStart,   \* i of bulkCreate's loop
    createdDocs,  \* createdDocs of bulkCreate
    persistErrs,  \* result.errors / result.failed of persistDocuments
    db,           \* the persistence sink: documents inserted so far
    refDb,        \* the referenced model's collection (identifiers)
    relCache,     \* relationshipCache: key |-> documents
    stitched,     \* what the last getReferencedDocuments call handed back
    result,       \* what the terminal operation returned or threw
    firstOut,     \* the result of an earlier, independent run of the same call
    generators,       \* GeneratorRegistry.generators, in Map (insertion) order
    generatorConfigs, \* GeneratorRegistry.generatorConfigs: name |-> config
    fieldTypeCache,   \* GeneratorRegistry.fieldTypeCache: field type |-> generators
    initialized,      \* GeneratorRegistry.initialized
    answer,           \* what the last call on the registry returned
    analysisCache,    \* SchemaAnalyzer.analysisCache: cache key |-> analysis
    frames,           \* the analyze() calls in progress, outermost first
    analysis,         \* what the last analyze() call returned
    plugin,           \* PluginManagerImpl.state: initialized, config, hooks, schemas
    calls             \* the initialize() and disable() calls awaiting, oldest first

factoryVars == <<count, overrides, traits, relations>>
runVars     == <<pc, op, documents, cur, fieldIdx, genLog>>
persistVars == <<batchStart, createdDocs, persistErrs, db>>
relVars     == <<refDb, relCache, stitched>>
registryVars == <<generators, generatorConfigs, fieldTypeCache, initialized, answer>>
analyzerVars == <<analysisCache, frames, analysis>>
pluginVars   == <<plugin, calls>>
vars == <<schema, options, env, count, overrides, traits, relations, ctx, thrown,
          pc, op, documents, cur, fieldIdx, genLog, batchStart, createdDocs,
          persistErrs, db, refDb, relCache, stitched, result, firstOut,
          generators, generatorConfigs, fieldTypeCache, initialized, answer,
          analysisCache, frames, analysis, plugin, calls>>

-----------------------------------------------------------------------------
(* Bounds of the model *)

MaxCount   == 3    \* largest count passed to count()/build()/make()/create()
MaxRelated == 3    \* largest count passed to withRelated()
MaxExisting == 2   \* documents of the referenced model present before the run

-----------------------------------------------------------------------------
(* JavaScript values.  One record shape for all of them, so that any two   *)
(* values can be compared.                                                 *)

Str(s)    == [k |-> "string",    n |-> 0, s |-> s,  ids |-> <<>>]
Num(n)    == [k |-> "number",    n |-> n, s |-> "", ids |-> <<>>]
Bool(b)   == [k |-> "boolean",   n |-> IF b THEN 1 ELSE 0, s |-> "", ids |-> <<>>]
DateV(t)  == [k |-> "date",      n |-> t, s |-> "", ids |-> <<>>]
IdV(i)    == [k |-> "objectid",  n |-> i, s |-> "", ids |-> <<>>]
IdList(l) == [k |-> "array",     n |-> 0, s |-> "", ids |-> l]
Null      == [k |-> "null",      n |-> 0, s |-> "", ids |-> <<>>]
Undefined == [k |-> "undefined", n |-> 0, s |-> "", ids |-> <<>>]

EmptyObject == <<>>                       \* {} : the function with no keys
HasOwn(obj, key) == key \in DOMAIN obj    \* obj.hasOwnProperty(key)
AssignKeepsTarget(target, source) == target  \* a copy that copies nothing
Assign(target, source) == source @@ target   \* Object.assign(target, source)
Get(obj, key) == IF HasOwn(obj, key) THEN obj[key] ELSE Undefined

-----------------------------------------------------------------------------
(* Schemas.  A path of a schema is the SchemaType mongoose keeps for it:   *)
(* its instance name and the options it was declared with.                 *)

SchemaPath(path, instance) ==
    [path |-> path, instance |-> instance, required |-> FALSE, unique |-> FALSE,
     hasDefault |-> FALSE, default |-> Undefined,
     hasMin |-> FALSE, min |-> 0, hasMax |-> FALSE, max |-> 0,
     enum |-> <<>>, matchHasAt |-> FALSE, ref |-> "", schema |-> 0]

IdPath      == SchemaPath("_id", "ObjectID")
VersionPath == SchemaPath("__v", "Number")

NameP   == [SchemaPath("name", "String") EXCEPT !.required = TRUE]
EmailP  == [SchemaPath("email", "String") EXCEPT !.unique = TRUE]
AgeP    == [SchemaPath("age", "Number") EXCEPT
               !.hasMin = TRUE, !.min = 18, !.hasMax = TRUE, !.max = 65]
StatusP == [SchemaPath("status", "String") EXCEPT
               !.enum = <<"active", "paused", "closed">>]
RoleP   == [SchemaPath("role", "String") EXCEPT
               !.required = TRUE, !.hasDefault = TRUE, !.default = Str("user")]
ActiveP == [SchemaPath("isActive", "Boolean") EXCEPT
               !.hasDefault = TRUE, !.default = Bool(TRUE)]
CreatedAtP == SchemaPath("createdAt", "Date")
UpdatedAtP == SchemaPath("updatedAt", "Date")
ItemsP  == SchemaPath("items", "Array")    \* items: [{type: ObjectId, ref: 'User'}]
AuthorP == [SchemaPath("author", "ObjectID") EXCEPT
               !.required = TRUE, !.ref = "User"]
TagsP   == SchemaPath("tags", "Array")     \* tags: [String]

\* The schemas the factory is run on; mongoose appends _id and __v.
Schemas ==
    { <<AgeP, IdPath, VersionPath>>,
      <<StatusP, IdPath, VersionPath>>,
      <<RoleP, ActiveP, IdPath, VersionPath>>,
      <<NameP, RoleP, IdPath, VersionPath>>,
      <<ItemsP, RoleP, IdPath, VersionPath>>,
      <<EmailP, IdPath, VersionPath>>,
      <<CreatedAtP, UpdatedAtP, IdPath, VersionPath>>,
      <<AuthorP, TagsP, IdPath, VersionPath>> }

-----------------------------------------------------------------------------
(* Schema analyzer *)

\* getFieldType
GetFieldType(st) ==
    CASE st.instance = "String"   -> "String"
      [] st.instance = "Number"   -> "Number"
      [] st.instance = "Boolean"  -> "Boolean"
      [] st.instance = "Date"     -> "Date"
      [] st.instance = "ObjectID" -> "ObjectId"
      [] st.instance = "Array"    -> "Array"
      [] OTHER                    -> "Mixed"

\* extractConstraints: only what the options declare
ExtractConstraints(st) ==
    [required |-> st.required, unique |-> st.unique,
     hasDefault |-> st.hasDefault, default |-> st.default,
     hasMin |-> st.hasMin, min |-> st.min, hasMax |-> st.hasMax, max |-> st.max,
     enum |-> st.enum, matchHasAt |-> st.matchHasAt]

\* detectRelationships: options.ref gives a reference, a path that carries
\* a schema (schemaType.schema, here the schema's number) a subdocument
DetectRelationships(st) ==
    IF st.ref # ""
    THEN [some |-> TRUE, type |-> "ref", model |-> st.ref,
          isArray |-> (st.instance = "Array")]
    ELSE IF st.schema # 0
    THEN [some |-> TRUE, type |-> "subdocument", model |-> "",
          isArray |-> (st.instance = "Array")]
    ELSE [some |-> FALSE, type |-> "", model |-> "", isArray |-> FALSE]

\* a shouldAutoGenerate that looks at required before the default
RequiredBeforeDefault(path, constraints, relationship) ==
    IF constraints.required THEN TRUE
    ELSE IF constraints.hasDefault THEN FALSE
    ELSE IF relationship.some THEN TRUE
    ELSE IF path = "_id" \/ path = "__v" THEN FALSE
    ELSE TRUE

\* shouldAutoGenerate
ShouldAutoGenerate(path, constraints, relationship) ==
    IF constraints.hasDefault THEN FALSE
    ELSE IF constraints.required THEN TRUE
    ELSE IF relationship.some THEN TRUE
    ELSE IF path = "_id" \/ path = "__v" THEN FALSE
    ELSE TRUE

\* analyzeField
AnalyzeField(st) ==
    LET constraints  == ExtractConstraints(st)
        relationship == DetectRelationships(st)
    IN  [path |-> st.path, type |-> GetFieldType(st),
         required |-> constraints.required, unique |-> constraints.unique,
         constraints |-> constraints, relationship |-> relationship,
         autoGenerate |-> ShouldAutoGenerate(st.path, constraints, relationship)]

\* analyze / analyzeFields: one analysis per path except _id and __v, in
\* eachPath order
RECURSIVE AnalyzeBackwards(_)
AnalyzeBackwards(sch) ==
    IF sch = <<>> THEN <<>>
    ELSE IF Head(sch).path = "_id" \/ Head(sch).path = "__v"
         THEN AnalyzeBackwards(Tail(sch))
         ELSE AnalyzeBackwards(Tail(sch)) \o <<AnalyzeField(Head(sch))>>

RECURSIVE Analyze(_)
Analyze(sch) ==
    IF sch = <<>> THEN <<>>
    ELSE IF Head(sch).path = "_id" \/ Head(sch).path = "__v"
         THEN Analyze(Tail(sch))
         ELSE <<AnalyzeField(Head(sch))>> \o Analyze(Tail(sch))

FieldNames(sch) == {Analyze(sch)[i].path : i \in DOMAIN Analyze(sch)}

-----------------------------------------------------------------------------
(* Generators.  A generator is its class, its priority and enabled flag;   *)
(* every class of the source extends AbstractBaseGenerator, so it has a    *)
(* generateSync method, and declares generate() async.                     *)

SyncGenerator(name, className, base, priority) ==
    [name |-> name, className |-> className, base |-> base,
     priority |-> priority, enabled |-> TRUE,
     isAsync |-> FALSE, hasGenerateSync |-> TRUE]

Generator(name, className, base, priority) ==
    [name |-> name, className |-> className, base |-> base,
     priority |-> priority, enabled |-> TRUE,
     isAsync |-> TRUE, hasGenerateSync |-> TRUE]

\* registerDefaultGenerators, in registration order
DefaultGenerators ==
    << Generator("string",     "MongooseStringGenerator", "String", 10),
       Generator("email",      "EmailStringGenerator",    "String", 50),
       Generator("password",   "PasswordStringGenerator", "String", 50),
       Generator("slug",       "SlugStringGenerator",     "String", 40),
       Generator("number",     "MongooseNumberGenerator", "Number", 10),
       Generator("price",      "PriceNumberGenerator",    "Number", 50),
       Generator("age",        "AgeNumberGenerator",      "Number", 50),
       Generator("rating",     "RatingNumberGenerator",   "Number", 45),
       Generator("date",       "MongooseDateGenerator",   "Date",   10),
       Generator("timestamp",  "TimestampDateGenerator",  "Date",   50),
       Generator("birthdate",  "BirthDateGenerator",      "Date",   50),
       Generator("futuredate", "FutureDateGenerator",     "Date",   45) >>

NoConstraints == [given |-> FALSE, c |-> ExtractConstraints(IdPath)]
Given(c)      == [given |-> TRUE, c |-> c]

\* canHandle of each class.  The specialised classes test the field name,
\* which they take to be "" ("Would get from context"), so their name tests
\* are false; EmailStringGenerator tests constraints?.match instead.
CanHandle(gen, fieldType, cons) ==
    CASE gen.className \in {"MongooseStringGenerator", "MongooseNumberGenerator",
                            "MongooseDateGenerator"}
            -> fieldType = gen.base
      [] gen.className = "EmailStringGenerator"
            -> fieldType = "String" /\ cons.given /\ cons.c.matchHasAt
      [] OTHER -> FALSE

\* getAll: the generators whose canHandle(fieldType) holds, in map order
RECURSIVE GetAll(_, _)
GetAll(gens, fieldType) ==
    IF gens = <<>> THEN <<>>
    ELSE IF CanHandle(Head(gens), fieldType, NoConstraints)
         THEN <<Head(gens)>> \o GetAll(Tail(gens), fieldType)
         ELSE GetAll(Tail(gens), fieldType)

\* canHandleEnum / canHandleRegex / canHandleRange: by constructor name
NameIncludesString(gen) == gen.base = "String"
NameIncludesNumberOrDate(gen) == gen.base \in {"Number", "Date"}

\* getSpecificityScore
GetSpecificityScore(gen, fieldType, cons) ==
    gen.priority
    + (IF cons.given /\ cons.c.enum # <<>> /\ NameIncludesString(gen) THEN 10 ELSE 0)
    + (IF cons.given /\ cons.c.matchHasAt /\ NameIncludesString(gen) THEN 10 ELSE 0)
    + (IF cons.given /\ (cons.c.hasMin \/ cons.c.hasMax) /\ NameIncludesNumberOrDate(gen)
       THEN 5 ELSE 0)

RECURSIVE FilterEnabled(_)
FilterEnabled(gens) ==
    IF gens = <<>> THEN <<>>
    ELSE IF Head(gens).enabled THEN <<Head(gens)>> \o FilterEnabled(Tail(gens))
         ELSE FilterEnabled(Tail(gens))

\* the comparator of getBest's sort: a negative result puts a before b
Before(a, b, fieldType, cons) ==
    IF b.priority - a.priority # 0 THEN b.priority - a.priority < 0
    ELSE GetSpecificityScore(b, fieldType, cons)
           - GetSpecificityScore(a, fieldType, cons) < 0

NoGenerator == [name |-> "", className |-> "", base |-> "", priority |-> 0,
                enabled |-> FALSE, isAsync |-> FALSE, hasGenerateSync |-> FALSE]

\* getBest after getAll: none for no candidate, the candidate when there is
\* one, else the head of the enabled candidates under the (stable) sort
SelectBest(candidates, fieldType, cons) ==
    LET sorted     == FilterEnabled(candidates)
        heads      == {i \in DOMAIN sorted :
                         /\ \A j \in DOMAIN sorted :
                               ~Before(sorted[j], sorted[i], fieldType, cons)
                         /\ \A j \in 1..(i - 1) :
                               Before(sorted[j], sorted[i], fieldType, cons)
                               \/ Before(sorted[i], sorted[j], fieldType, cons)}
    IN  IF Len(candidates) = 0 THEN NoGenerator
        ELSE IF Len(candidates) = 1 THEN candidates[1]
        ELSE IF sorted = <<>> THEN NoGenerator
        ELSE sorted[CHOOSE i \in heads : TRUE]

\* getBest on a registry holding gens, nothing cached
GetBest(gens, fieldType, cons) ==
    SelectBest(GetAll(gens, fieldType), fieldType, cons)

\* The registry a Factory constructs for itself; ensureInitialized fills it
\* with the default generators on the first getBest, and nothing else writes
\* to it.
FactoryRegistry == DefaultGenerators

-----------------------------------------------------------------------------
(* Value sources.  Math.random() is never seeded: each call is a free      *)
(* choice, here among tenths.  faker is the external value source; each    *)
(* call is a free choice among the values listed for it.  setSeed only     *)
(* stores the seed in the plugin configuration; initialize seeds faker     *)
(* once when a seed is among its options, after which successive calls     *)
(* still draw successive values.                                           *)

RandomDraws == {0, 9}         \* Math.random() in tenths
FakerDraws  == {1, 2}         \* which of the listed values faker returns

FakerEmail    == <<"ann@example.com", "bob@example.com">>
FakerFullName == <<"Ann Lee", "Bob Ray">>
FakerWord     == <<"lorem", "ipsum">>

Draws == [r1 : RandomDraws, r2 : RandomDraws, f : FakerDraws]

\* the lower-cased field names of the schemas above that each pattern list
\* of MongooseStringGenerator / MongooseNumberGenerator matches
EmailPatternNames == {"email"}       \* /^.*email.*$/i
NamePatternNames  == {"name"}        \* /^(name|title|label)$/i, /^.*name$/i
StatusSemanticNames == {"status"}    \* inferSemantic: includes("status")
AgePatternNames   == {"age"}         \* /^(age|years|year)$/i, /^.*age$/i

\* getRandomElement: array[Math.floor(Math.random() * array.length)]
GetRandomElement(array, r) == array[((r * Len(array)) \div 10) + 1]

\* generateInteger: Math.floor(Math.random() * (max - min + 1)) + min
GenerateInteger(min, max, r) == ((r * (max - min + 1)) \div 10) + min

\* weightedRandomSelect, weights in hundredths
RECURSIVE WeightedFrom(_, _, _)
WeightedFrom(items, i, random) ==
    IF i > Len(items) THEN items[Len(items)]
    ELSE IF random - items[i].weight <= 0 THEN items[i]
    ELSE WeightedFrom(items, i + 1, random - items[i].weight)

WeightedRandomSelect(items, r) == WeightedFrom(items, 1, r * 10)

AgeRanges ==
    << [min |-> 18, max |-> 25, weight |-> 20],
       [min |-> 25, max |-> 35, weight |-> 30],
       [min |-> 35, max |-> 50, weight |-> 30],
       [min |-> 50, max |-> 70, weight |-> 15],
       [min |-> 70, max |-> 90, weight |-> 5] >>

\* generateAge
GenerateAge(d) ==
    LET selectedRange == WeightedRandomSelect(AgeRanges, d.r1)
    IN  GenerateInteger(selectedRange.min, selectedRange.max, d.r2)

\* getConstraintsFromContext of the string, number and date generators:
\* "return undefined"
GetConstraintsFromContext(context) == NoConstraints

\* MongooseNumberGenerator.applyConstraints
NumberApplyConstraints(value, cons) ==
    IF ~cons.given THEN value
    ELSE LET lo == IF cons.c.hasMin /\ value < cons.c.min THEN cons.c.min ELSE value
         IN  IF cons.c.hasMax /\ lo > cons.c.max THEN cons.c.max ELSE lo

\* MongooseNumberGenerator.generate: generateBySemantic never yields null
\* (it falls back to generateInteger(0, 100)), so its value is returned
\* through applyConstraints
NumberGenerate(context, d) ==
    LET lower       == context.fieldPath
        constraints == GetConstraintsFromContext(context)
        semanticValue == IF lower \in AgePatternNames THEN GenerateAge(d)
                         ELSE GenerateInteger(0, 100, d.r1)
    IN  Num(NumberApplyConstraints(semanticValue, constraints))

\* MongooseStringGenerator.generate: by pattern, by semantic, by enum, else
\* generic text
StringGenerate(context, d) ==
    LET lower       == context.fieldPath
        constraints == GetConstraintsFromContext(context)
    IN  IF lower \in EmailPatternNames THEN Str(FakerEmail[d.f])
        ELSE IF lower \in NamePatternNames THEN Str(FakerFullName[d.f])
        ELSE IF lower \in StatusSemanticNames
             THEN Str(GetRandomElement(<<"active", "inactive", "pending", "archived">>,
                                       d.r1))
        ELSE IF constraints.given /\ constraints.c.enum # <<>>
             THEN Str(GetRandomElement(constraints.c.enum, d.r1))
        ELSE Str(FakerWord[d.f])

\* Dates are days counted from now (0); earlier dates are negative.
CreatedAtPatternNames == {"createdAt"}   \* createdAtPatterns, case-insensitive
UpdatedAtPatternNames == {"updatedAt"}   \* updatedAtPatterns, case-insensitive
TwoYears   == 730     \* generateCreatedAt: now.getFullYear() - 2
RecentDays == 90      \* generateRecent(days = 90)

\* faker.date.between({from, to}): a date of the interval, here an end of it
FakerDateBetween(from, to, f) == IF f = 1 THEN from ELSE to

\* generateCreatedAt
GenerateCreatedAt(d) == FakerDateBetween(0 - TwoYears, 0, d.f)

\* generateRecent
GenerateRecent(d) == FakerDateBetween(0 - RecentDays, 0, d.f)

\* getRelatedDate: "return null"
GetRelatedDate(context, type) == [found |-> FALSE, date |-> 0]

\* generateUpdatedAt
GenerateUpdatedAt(context, d) ==
    LET createdAt == GetRelatedDate(context, "created")
    IN  IF createdAt.found THEN FakerDateBetween(createdAt.date, 0, d.f)
        ELSE GenerateRecent(d)

\* MongooseDateGenerator.generate: the semantic date, through applyConstraints
\* (which returns the date as it is when given no constraints)
DateGenerate(context, d) ==
    LET constraints == GetConstraintsFromContext(context)
    IN  IF context.fieldPath \in CreatedAtPatternNames THEN DateV(GenerateCreatedAt(d))
        ELSE IF context.fieldPath \in UpdatedAtPatternNames
             THEN DateV(GenerateUpdatedAt(context, d))
        ELSE DateV(GenerateRecent(d))

\* generate() of the selected generator
Generate(gen, context, d) ==
    CASE gen.base = "Number" -> NumberGenerate(context, d)
      [] gen.base = "Date"   -> DateGenerate(context, d)
      [] OTHER               -> StringGenerate(context, d)

-----------------------------------------------------------------------------
(* Errors *)

NoError == [type |-> "none", reason |-> "", field |-> "", generator |-> "",
            index |-> -1, at |-> ""]
GenerationError(reason, field, generator) ==
    [type |-> "GenerationError", reason |-> reason, field |-> field,
     generator |-> generator, index |-> -1, at |-> ""]
RelationshipError(reason, field) ==
    [type |-> "RelationshipError", reason |-> reason, field |-> field,
     generator |-> "", index |-> -1, at |-> ""]

Value(v) == [ok |-> TRUE,  value |-> v, err |-> NoError, by |-> ""]
Throw(e) == [ok |-> FALSE, value |-> Undefined, err |-> e, by |-> ""]

GenerateSyncReturnsValue(gen, context, d) ==
    [Value(Generate(gen, context, d)) EXCEPT !.by = "generateSync"]

\* AbstractBaseGenerator.generateSync: the result of generate() is returned
\* unless it is a promise
GenerateSync(gen, context, d) ==
    IF gen.isAsync
    THEN Throw(GenerationError("no_sync", context.fieldPath, gen.className))
    ELSE [Value(Generate(gen, context, d)) EXCEPT !.by = "generateSync"]

\* getBasicValue (Date and ObjectId values are not told apart here)
GetBasicValue(fieldType) ==
    CASE fieldType = "String"  -> Str("test-value")
      [] fieldType = "Number"  -> Num(42)
      [] fieldType = "Boolean" -> Bool(TRUE)
      [] fieldType = "Date"    -> DateV(0)
      [] fieldType = "ObjectId" -> IdV(0)
      [] OTHER                 -> Str("default-value")

\* generateFieldValue
GenerateFieldValue(fieldPath, fa, context, d) ==
    LET generator == GetBest(FactoryRegistry, fa.type, Given(fa.constraints))
    IN  IF generator = NoGenerator
        THEN Throw(GenerationError("no_generator", fieldPath, ""))
        ELSE [Value(Generate(generator, context, d)) EXCEPT !.by = "generate"]

\* the synchronous path yielding what the asynchronous path yields
GenerateFieldValueSyncYieldsValue(fieldPath, fa, context, d) ==
    GenerateFieldValue(fieldPath, fa, context, d)

\* generateFieldValueSync, context.fieldPath already set
GenerateFieldValueSync(fieldPath, fa, context, d) ==
    LET generator == GetBest(FactoryRegistry, fa.type, Given(fa.constraints))
    IN  IF generator = NoGenerator
        THEN Throw(GenerationError("no_generator", fieldPath, ""))
        ELSE IF generator.hasGenerateSync
             THEN LET r == GenerateSync(generator, context, d)
                  IN  IF r.ok THEN r
                      ELSE Throw([r.err EXCEPT !.field = fieldPath])
             ELSE [Value(GetBasicValue(fa.type)) EXCEPT !.by = "getBasicValue"]

\* setFieldValue, for a path of one segment
SetFieldValue(document, fieldPath, value) == (fieldPath :> value) @@ document

\* shouldGenerateField
ShouldGenerateField(state, fieldPath, fa) ==
    IF HasOwn(state.overrides, fieldPath) THEN FALSE
    ELSE IF ~fa.autoGenerate THEN FALSE
    ELSE IF fieldPath = "_id" \/ fieldPath = "__v" THEN FALSE
    ELSE TRUE

-----------------------------------------------------------------------------
(* The host: mongoose documents and collections *)

PathIndex(sch, path) == CHOOSE i \in DOMAIN sch : sch[i].path = path
HasPath(sch, path)   == \E i \in DOMAIN sch : sch[i].path = path

\* the value mongoose keeps for one path of a new document: the given value
\* cast to the path's type, else the declared default; array paths start
\* empty and wrap a single value
CastPath(st, doc) ==
    LET given == Get(doc, st.path)
    IN  IF st.instance = "Array"
        THEN IF given.k = "array" THEN given
             ELSE IF given = Undefined THEN IdList(<<>>)
             ELSE IdList(<<given.n>>)
        ELSE IF given # Undefined THEN given
        ELSE IF st.hasDefault THEN st.default
        ELSE Undefined

\* new Model(doc): schema paths only (strict mode), defaults applied, own _id;
\* paths left undefined are absent
NewModel(sch, doc, id) ==
    LET present == {i \in DOMAIN sch :
                        /\ sch[i].path \notin {"_id", "__v"}
                        /\ CastPath(sch[i], doc) # Undefined}
        paths   == {sch[i].path : i \in present}
    IN  [p \in paths \cup {"_id"} |->
            IF p = "_id" THEN IdV(id) ELSE CastPath(sch[PathIndex(sch, p)], doc)]

\* document validation as insertMany runs it: required, enum, min, max
ValidPath(st, d) ==
    LET v == Get(d, st.path)
    IN  /\ st.required => (v # Undefined /\ v # Null)
        /\ (v.k = "string" /\ st.enum # <<>>) =>
               \E i \in DOMAIN st.enum : st.enum[i] = v.s
        /\ (v.k = "number" /\ st.hasMin) => v.n >= st.min
        /\ (v.k = "number" /\ st.hasMax) => v.n <= st.max

Valid(sch, d) ==
    \A i \in DOMAIN sch : sch[i].path \in {"_id", "__v"} \/ ValidPath(sch[i], d)

\* identifiers: documents of the factory's model get negative identifiers,
\* documents of the referenced model positive ones
OwnId(k) == 0 - k

\* the documents insertMany returns for a batch, db holding n documents
RECURSIVE Inserted(_, _, _)
Inserted(sch, batch, n) ==
    IF batch = <<>> THEN <<>>
    ELSE <<NewModel(sch, Head(batch), OwnId(n + 1))>>
             \o Inserted(sch, Tail(batch), n + 1)

SliceFromStart(docs, i, size) ==
    SubSeq(docs, 1, IF size > Len(docs) THEN Len(docs) ELSE size)

\* documents.slice(i, i + batchSize), i counted from 0
Slice(docs, i, size) ==
    SubSeq(docs, i + 1, IF i + size > Len(docs) THEN Len(docs) ELSE i + size)

\* this.state.options.batchSize ?? 100
DefaultBatchSize == 100
BatchSize(opts) == IF opts.hasBatchSize THEN opts.batchSize ELSE DefaultBatchSize

-----------------------------------------------------------------------------
(* Relationship manager.  Documents of the referenced model are kept as    *)
(* their identifiers.                                                      *)

\* getFieldAnalysis: "For now, return a placeholder"
GetFieldAnalysis(context, fieldName) ==
    [relationship |-> [some |-> TRUE, type |-> "ref", model |-> "User",
                       isArray |-> FALSE]]

\* getReferencedModel: mongoose.model(modelName), undefined when it throws
GetReferencedModel(host, modelName) == host.userModel # "absent"

CacheKey(modelName, fieldName) == <<modelName, fieldName>>

Min(a, b) == IF a < b THEN a ELSE b

\* model.find().limit(n).exec(); limit(0) is no limit
FindLimit(coll, n) == IF n = 0 THEN coll ELSE SubSeq(coll, 1, Min(n, Len(coll)))

\* selectRandomDocuments: every result the random indexes can give
SelectRandomDocuments(docs, n) ==
    IF Len(docs) <= n THEN {docs}
    ELSE {[i \in 1..n |-> docs[f[i]]] :
             f \in {g \in [1..n -> 1..Len(docs)] :
                       \A a, b \in 1..n : a # b => g[a] # g[b]}}

NewIds(coll, k) == [i \in 1..k |-> Len(coll) + i]

\* createReferencedDocuments: through the referenced model's factory when it
\* has one, else one minimal document at a time.  `iterable` tells whether
\* the value handed back can be spread into a list.
CreateReferencedDocuments(host, coll, needed) ==
    IF host.userModel = "factory"
    THEN { [threw |-> FALSE, iterable |-> needed # 1,
            docs |-> NewIds(coll, needed), coll |-> coll \o NewIds(coll, needed)],
           [threw |-> FALSE, iterable |-> needed # 1,
            docs |-> <<>>, coll |-> coll],
           [threw |-> TRUE, iterable |-> FALSE, docs |-> <<>>, coll |-> coll] }
    ELSE { [threw |-> k < needed, iterable |-> TRUE,
            docs |-> NewIds(coll, k), coll |-> coll \o NewIds(coll, k)] :
              k \in 0..needed }

RefResult(ok, docs, coll, cache) ==
    [ok |-> ok, docs |-> docs, coll |-> coll, cache |-> cache]

NoStitch == [key |-> <<>>, count |-> 0, ok |-> FALSE, docs |-> <<>>]

\* getReferencedDocuments
GetReferencedDocuments(host, coll, cache, n, fieldName) ==
    LET cacheKey == CacheKey("User", fieldName)
    IN  IF HasOwn(cache, cacheKey) /\ Len(cache[cacheKey]) >= n
        THEN {RefResult(TRUE, SubSeq(cache[cacheKey], 1, n), coll, cache)}
        ELSE UNION {
               LET existingDocs == IF findOk THEN FindLimit(coll, n * 2) ELSE <<>>
               IN  IF Len(existingDocs) >= n
                   THEN {RefResult(TRUE, sel, coll, (cacheKey :> sel) @@ cache) :
                             sel \in SelectRandomDocuments(existingDocs, n)}
                   ELSE UNION {
                          IF c.threw \/ ~c.iterable
                          THEN {RefResult(FALSE, <<>>, c.coll, cache)}
                          ELSE {RefResult(TRUE, sel, c.coll, (cacheKey :> sel) @@ cache) :
                                   sel \in SelectRandomDocuments(existingDocs \o c.docs, n)}
                          : c \in CreateReferencedDocuments(host, coll,
                                                            n - Len(existingDocs)) }
               : findOk \in BOOLEAN }

\* generateReference / generateRelationship: the parent's field is set from
\* the documents found; every failure leaves as a RelationshipError
GenerateRelationship(document, fieldName, n, host, coll, cache, context) ==
    LET relationship == GetFieldAnalysis(context, fieldName).relationship
    IN  IF ~GetReferencedModel(host, relationship.model)
        THEN {[ok |-> FALSE, doc |-> document, coll |-> coll, cache |-> cache]}
        ELSE {[ok |-> r.ok,
               doc |-> IF ~r.ok THEN document
                       ELSE IF relationship.isArray
                            THEN (fieldName :> IdList(r.docs)) @@ document
                            ELSE (fieldName :> IF r.docs = <<>> THEN Undefined
                                               ELSE IdV(r.docs[1])) @@ document,
               coll |-> r.coll, cache |-> r.cache] :
                 r \in GetReferencedDocuments(host, coll, cache, n, fieldName)}

-----------------------------------------------------------------------------
(* The factory *)

SmallBatch == 2          \* the batch size given in FactoryOptions, when given

OptionsGiven == { [hasBatchSize |-> FALSE, batchSize |-> 0],
                  [hasBatchSize |-> TRUE,  batchSize |-> SmallBatch],
                  [hasBatchSize |-> TRUE,  batchSize |-> 0] }

NoSeed == [given |-> FALSE, n |-> 0]
Seeds == {1, 2}         \* the seeds given to setSeed

\* the referenced model of the host, and the plugin configuration's seed
Hosts == [userModel : {"absent", "plain", "factory"}, seed : {NoSeed}]

\* the overrides a caller passes to with(): field and value
OverridePairs ==
    { <<"name", Str("John Doe")>>, <<"age", Num(30)>>, <<"age", Num(200)>>,
      <<"role", Str("admin")>>, <<"status", Str("active")>>,
      <<"items", IdList(<<>>)>> }

RelationFields == {"items", "role"}   \* the fields withRelated is called on
ReferringFields == {"items"}          \* those among them that hold references
RelatedCounts  == {-1, 1, MaxRelated}
TraitNames     == {"admin"}

NoArg     == [given |-> FALSE, n |-> 0]
Arg(n)    == [given |-> TRUE,  n |-> n]
CountArgs == {NoArg} \cup {Arg(n) : n \in 0..MaxCount}

NoResult == [status |-> "none", shape |-> "", docs |-> <<>>, err |-> NoError]

NeverUnwrap(actualCount, docs) ==
    [status |-> "returned", shape |-> "list", docs |-> docs, err |-> NoError]

\* actualCount === 1 ? documents[0] : documents
Unwrap(actualCount, docs) ==
    IF actualCount = 1
    THEN IF docs = <<>>
         THEN [status |-> "returned", shape |-> "undefined", docs |-> <<>>,
               err |-> NoError]
         ELSE [status |-> "returned", shape |-> "single", docs |-> <<docs[1]>>,
               err |-> NoError]
    ELSE [status |-> "returned", shape |-> "list", docs |-> docs, err |-> NoError]

\* the GenerationError build/make/create throw around the error of
\* document `index`
Thrown(e, index, at) ==
    [status |-> "thrown", shape |-> "", docs |-> <<>>,
     err |-> [e EXCEPT !.index = index, !.at = at]]

-----------------------------------------------------------------------------
(* A GeneratorRegistry used as an object of its own.  generators is the    *)
(* Map in insertion order; a cached list holds the generator objects, and  *)
(* the registry's own operations are the only writers of those objects.    *)

RegistryNames == {"number", "mine"}   \* names passed to the registry's mutators
FieldTypes    == {"String", "Number"} \* field types passed to getAll / getBest

\* the config argument of updateConfig: { priority: 50 } or { enabled: false }
GeneratorConfigs == {"priority" :> Num(50), "enabled" :> Bool(FALSE)}

\* the config argument of register: left out, or { priority: 50 }
RegisterConfigs == {Undefined, "priority" :> Num(50)}

\* the constraints of a path declared { type: String, match: /@/ }
MatchAt == Given([ExtractConstraints(NameP) EXCEPT !.matchHasAt = TRUE])

\* the constraints argument of getBest: left out, or those of such a path
QueryConstraints == {NoConstraints, MatchAt}

NoAnswer == [call |-> "none", fieldType |-> "", cons |-> NoConstraints,
             all |-> <<>>, gen |-> NoGenerator, ok |-> FALSE]

\* Map.has / Map.set / Map.delete on generators, keyed by name
MapHas(gens, name) == \E i \in DOMAIN gens : gens[i].name = name
MapSet(gens, gen) ==
    IF MapHas(gens, gen.name)
    THEN [i \in DOMAIN gens |-> IF gens[i].name = gen.name THEN gen ELSE gens[i]]
    ELSE Append(gens, gen)
MapDelete(gens, name) == SelectSeq(gens, LAMBDA g : g.name # name)

\* delete obj[key]
Delete(obj, key) ==
    IF DOMAIN obj \ {key} = {} THEN EmptyObject
    ELSE [k \in DOMAIN obj \ {key} |-> obj[k]]

\* AbstractBaseGenerator.updateConfig
GeneratorUpdateConfig(gen, config) ==
    [gen EXCEPT
       !.priority = IF HasOwn(config, "priority") THEN config["priority"].n ELSE @,
       !.enabled  = IF HasOwn(config, "enabled") THEN config["enabled"].n = 1 ELSE @]

KeepCache(cache) == cache          \* a clear that clears nothing
ClearCache(cache) == EmptyObject   \* clearCache: fieldTypeCache.clear()

\* registerDefaultGenerators: register() of each default, in order
RECURSIVE RegisterDefaultGenerators(_, _)
RegisterDefaultGenerators(gens, defaults) ==
    IF defaults = <<>> THEN gens
    ELSE RegisterDefaultGenerators(MapSet(gens, Head(defaults)), Tail(defaults))

\* ensureInitialized: the registry as getAll / getBest see it
EnsureInitialized ==
    IF initialized
    THEN [generators |-> generators, fieldTypeCache |-> fieldTypeCache]
    ELSE [generators |-> RegisterDefaultGenerators(generators, DefaultGenerators),
          fieldTypeCache |-> ClearCache(fieldTypeCache)]

-----------------------------------------------------------------------------
(* A SchemaAnalyzer used as an object of its own.  The schemas it is given *)
(* are objects, told apart by their number; a path may carry one of them   *)
(* as its nested schema.                                                   *)

MaxFrames == 7         \* analyze() calls the call stack holds; one more overflows
DefaultMaxDepth == 5   \* options.maxDepth || 5

ChildrenP == [SchemaPath("children", "Array") EXCEPT !.schema = 3]
ProfileP  == [SchemaPath("profile", "Embedded") EXCEPT !.schema = 2]

\* 1: a user; 2: a profile; 3: Tree.add({ children: [Tree] }); 4: { profile: 2 }
SchemaObjects ==
    << <<NameP, RoleP, IdPath, VersionPath>>,
       <<AgeP, IdPath, VersionPath>>,
       <<NameP, ChildrenP, IdPath, VersionPath>>,
       <<ProfileP, IdPath, VersionPath>> >>

ModelNames == {"", "User"}     \* modelName: left out, or given

\* AnalysisOptions: {} and { enableCaching: true }
AnalysisOptionsGiven == [enableCaching : BOOLEAN, maxDepth : {NoArg}]

\* generateCacheKey: `${modelName || "unknown"}_${JSON.stringify(options || {})}`
GenerateCacheKey(schemaObject, modelName, analysisOptions) ==
    <<IF modelName = "" THEN "unknown" ELSE modelName, analysisOptions>>

\* analyzeNestedSchema: { ...options, maxDepth: (options.maxDepth || 5) - 1 }
NestedOptions(analysisOptions) ==
    [analysisOptions EXCEPT !.maxDepth =
        Arg((IF analysisOptions.maxDepth.given /\ analysisOptions.maxDepth.n # 0
             THEN analysisOptions.maxDepth.n ELSE DefaultMaxDepth) - 1)]

\* the schemas analyzeFields stores in result.nestedSchemas, when every
\* nested analysis is of the path's own schema
RECURSIVE NestedSchemasOf(_)
NestedSchemasOf(paths) ==
    IF paths = <<>> THEN <<>>
    ELSE (IF Head(paths).schema # 0 THEN <<Head(paths).schema>> ELSE <<>>)
         \o NestedSchemasOf(Tail(paths))

\* calculateSchemaDepth over result.nestedSchemas; each nested schema is
\* analyzed again, without options, and the depth of that analysis taken
RECURSIVE CalculateSchemaDepth(_)
CalculateSchemaDepth(nestedSchemas) ==
    IF nestedSchemas = <<>> THEN 1
    ELSE LET nestedDepth ==
                 1 + CalculateSchemaDepth(
                         NestedSchemasOf(SchemaObjects[Head(nestedSchemas)]))
             maxDepth == CalculateSchemaDepth(Tail(nestedSchemas))
         IN  IF nestedDepth > maxDepth THEN nestedDepth ELSE maxDepth

\* the SchemaAnalysisResult of analyze: schema, modelName, fields,
\* nestedSchemas and metadata.depth
AnalysisResult(schemaObject, modelName, fields, nestedSchemas) ==
    [schema |-> schemaObject, modelName |-> modelName, fields |-> fields,
     nestedSchemas |-> nestedSchemas,
     depth |-> CalculateSchemaDepth(nestedSchemas)]

NoAnalysis == [status |-> "none", request |-> 0,
               result |-> AnalysisResult(0, "", <<>>, <<>>)]

\* an analyze(schema, modelName, options) call that has just begun
Frame(schemaObject, modelName, analysisOptions) ==
    [schema |-> schemaObject, modelName |-> modelName, options |-> analysisOptions,
     path |-> 1, fields |-> <<>>, nestedSchemas |-> <<>>]

\* The plugin manager's options and configuration
MaxCalls == 2            \* calls awaiting at one time

NoPluginOptions == [hasSeed |-> FALSE, seed |-> 0, locale |-> ""]
SeedOptions     == [hasSeed |-> TRUE,  seed |-> 1, locale |-> ""]
LocaleOptions   == [hasSeed |-> FALSE, seed |-> 0, locale |-> "fr"]
PluginOptionsGiven == {NoPluginOptions, SeedOptions, LocaleOptions}
PluginSchemas == {1, 2}  \* the schemas the plugin is applied to

\* getDefaultConfig, mergeWithDefaults: { ...defaults, ...options }
DefaultConfig == [hasSeed |-> FALSE, seed |-> 0, locale |-> "en"]
MergeWithDefaults(opts) ==
    [hasSeed |-> opts.hasSeed, seed |-> opts.seed,
     locale |-> IF opts.locale = "" THEN DefaultConfig.locale ELSE opts.locale]

Init ==
    /\ schema \in Schemas
    /\ options \in OptionsGiven
    /\ env \in Hosts
    /\ refDb \in {[i \in 1..k |-> i] : k \in {0, MaxExisting}}
    /\ env.userModel = "absent" => refDb = <<>>
    /\ (\A f \in ReferringFields : ~HasPath(schema, f)) => env.userModel = "absent"
    /\ count = 1
    /\ overrides = EmptyObject
    /\ traits = <<>>
    /\ relations = EmptyObject
    /\ ctx = [index |-> 0, fieldPath |-> "", totalCount |-> 1]
    /\ thrown = ""
    /\ pc = "configured"
    /\ op = ""
    /\ documents = <<>>
    /\ cur = EmptyObject
    /\ fieldIdx = 0
    /\ genLog = <<>>
    /\ batchStart = 0
    /\ createdDocs = <<>>
    /\ persistErrs = 0
    /\ db = <<>>
    /\ relCache = EmptyObject
    /\ stitched = NoStitch
    /\ result = NoResult
    /\ firstOut = NoResult
    /\ generators = <<>>
    /\ generatorConfigs = EmptyObject
    /\ fieldTypeCache = EmptyObject
    /\ initialized = FALSE
    /\ answer = NoAnswer
    /\ analysisCache = EmptyObject
    /\ frames = <<>>
    /\ analysis = NoAnalysis
    /\ plugin = [initialized |-> FALSE, config |-> DefaultConfig,
                 hooks |-> FALSE, schemas |-> {}]
    /\ calls = <<>>

\* count(num)
CountAcceptsNegative(num) ==
    /\ pc = "configured"
    /\ count' = num
    /\ ctx' = [ctx EXCEPT !.totalCount = num]
    /\ thrown' = ""
    /\ UNCHANGED <<registryVars, analyzerVars, pluginVars, schema, options, env, overrides, traits, relations, runVars,
                   persistVars, relVars, result, firstOut>>

Count(num) ==
    /\ pc = "configured"
    /\ IF num < 0
       THEN /\ thrown' = "FactoryError: Count must be a positive number"
            /\ UNCHANGED <<count, ctx>>
       ELSE /\ count' = num
            /\ ctx' = [ctx EXCEPT !.totalCount = num]
            /\ thrown' = ""
    /\ UNCHANGED <<registryVars, analyzerVars, pluginVars, schema, options, env, overrides, traits, relations, runVars,
                   persistVars, relVars, result, firstOut>>

\* with(field, value), field a string
WithField(field, value) ==
    /\ pc = "configured"
    /\ IF value = Undefined
       THEN /\ thrown' = "FactoryError: Value must be provided when field is a string"
            /\ UNCHANGED overrides
       ELSE /\ overrides' = (field :> value) @@ overrides
            /\ thrown' = ""
    /\ UNCHANGED <<registryVars, analyzerVars, pluginVars, schema, options, env, count, traits, relations, ctx, runVars,
                   persistVars, relVars, result, firstOut>>

\* with(object)
WithObject(object) ==
    /\ pc = "configured"
    /\ overrides' = Assign(overrides, object)
    /\ thrown' = ""
    /\ UNCHANGED <<registryVars, analyzerVars, pluginVars, schema, options, env, count, traits, relations, ctx, runVars,
                   persistVars, relVars, result, firstOut>>

\* withRelated(field, count)
WithRelated(field, n) ==
    /\ pc = "configured"
    /\ IF n < 0
       THEN /\ thrown' = "FactoryError: Related count must be a positive number"
            /\ UNCHANGED relations
       ELSE /\ relations' = (field :> n) @@ relations
            /\ thrown' = ""
    /\ UNCHANGED <<registryVars, analyzerVars, pluginVars, schema, options, env, count, overrides, traits, ctx, runVars,
                   persistVars, relVars, result, firstOut>>

NeverIncludes(seq, x) == FALSE

Includes(seq, x) == \E i \in DOMAIN seq : seq[i] = x

\* trait(name)
Trait(name) ==
    /\ pc = "configured"
    /\ traits' = IF Includes(traits, name) THEN traits ELSE Append(traits, name)
    /\ thrown' = ""
    /\ UNCHANGED <<registryVars, analyzerVars, pluginVars, schema, options, env, count, overrides, relations, ctx, runVars,
                   persistVars, relVars, result, firstOut>>

\* the head of build / make / create: actualCount = count ?? this.state.count
Start(name, arg) ==
    LET actualCount == IF arg.given THEN arg.n ELSE count
    IN  /\ pc = "configured"
        /\ count' = actualCount
        /\ ctx' = [ctx EXCEPT !.totalCount = actualCount]
        /\ op' = name
        /\ pc' = "loop"
        /\ documents' = <<>>
        /\ genLog' = <<>>
        /\ thrown' = ""
        /\ UNCHANGED <<registryVars, analyzerVars, pluginVars, schema, options, env, overrides, traits, relations, cur,
                       fieldIdx, persistVars, relVars, result, firstOut>>

Build(arg)  == Start("build", arg)
Make(arg)   == Start("make", arg)
Create(arg) == Start("create", arg)

\* the for loop of generateDocuments / generateDocumentsSync: next document
StartDocument ==
    /\ pc = "loop"
    /\ Len(documents) < count
    /\ ctx' = [ctx EXCEPT !.index = Len(documents)]
    /\ cur' = EmptyObject
    /\ fieldIdx' = 1
    /\ pc' = "fields"
    /\ UNCHANGED <<registryVars, analyzerVars, pluginVars, schema, options, env, factoryVars, thrown, op, documents,
                   genLog, persistVars, relVars, result, firstOut>>

\* one turn of the loop over analysis.fields in generateSingleDocument (create)
\* or generateSingleDocumentSync (build, make)
VisitField ==
    /\ pc = "fields"
    /\ fieldIdx <= Len(Analyze(schema))
    /\ LET fa == Analyze(schema)[fieldIdx]
       IN  IF ~ShouldGenerateField([overrides |-> overrides], fa.path, fa)
           THEN /\ fieldIdx' = fieldIdx + 1
                /\ UNCHANGED <<ctx, cur, genLog, pc, result>>
           ELSE \E d \in Draws :
                  LET context == [ctx EXCEPT !.fieldPath = fa.path]
                      r == IF op = "create"
                           THEN GenerateFieldValue(fa.path, fa, context, d)
                           ELSE GenerateFieldValueSync(fa.path, fa, context, d)
                  IN  /\ ctx' = context
                      /\ IF r.ok
                         THEN /\ cur' = SetFieldValue(cur, fa.path, r.value)
                              /\ genLog' = Append(genLog,
                                     [index |-> ctx.index, field |-> fa.path,
                                      by |-> r.by, value |-> r.value])
                              /\ fieldIdx' = fieldIdx + 1
                              /\ UNCHANGED <<pc, result>>
                         ELSE /\ result' = Thrown(r.err, ctx.index, op)
                              /\ pc' = "done"
                              /\ UNCHANGED <<cur, genLog, fieldIdx>>
    /\ UNCHANGED <<registryVars, analyzerVars, pluginVars, schema, options, env, factoryVars, thrown, op, documents,
                   persistVars, relVars, firstOut>>

\* the end of generateSingleDocument(Sync): Object.assign(document, overrides),
\* on create then generateRelationships, and documents.push(document).
\* withRelated is called for one field per factory, so the loop over
\* relations has one turn.
FinishDocument ==
    /\ pc = "fields"
    /\ fieldIdx > Len(Analyze(schema))
    /\ LET document == Assign(cur, overrides)
       IN  IF op # "create" \/ DOMAIN relations = {}
           THEN /\ documents' = Append(documents, document)
                /\ pc' = "loop"
                /\ UNCHANGED <<relVars, result>>
           ELSE LET fieldName == CHOOSE f \in DOMAIN relations : TRUE
                IN  \E o \in GenerateRelationship(document, fieldName,
                                 relations[fieldName], env, refDb, relCache, ctx) :
                       /\ refDb' = o.coll
                       /\ relCache' = o.cache
                       /\ UNCHANGED stitched
                       /\ IF o.ok
                          THEN /\ documents' = Append(documents, o.doc)
                               /\ pc' = "loop"
                               /\ UNCHANGED result
                          ELSE /\ result' = Thrown(RelationshipError("relationship",
                                                       fieldName), ctx.index, op)
                               /\ pc' = "done"
                               /\ UNCHANGED documents
    /\ cur' = EmptyObject
    /\ UNCHANGED <<registryVars, analyzerVars, pluginVars, schema, options, env, factoryVars, ctx, thrown, op, fieldIdx,
                   genLog, persistVars, firstOut>>

\* build: return actualCount === 1 ? documents[0] : documents
ReturnBuild ==
    /\ pc = "loop" /\ op = "build"
    /\ Len(documents) >= count
    /\ result' = Unwrap(count, documents)
    /\ pc' = "done"
    /\ UNCHANGED <<registryVars, analyzerVars, pluginVars, schema, options, env, factoryVars, ctx, thrown, op, documents,
                   cur, fieldIdx, genLog, persistVars, relVars, firstOut>>

\* make: documents.map(doc => new Model(doc)), then as build
ReturnMake ==
    /\ pc = "loop" /\ op = "make"
    /\ Len(documents) >= count
    /\ result' = Unwrap(count, [i \in DOMAIN documents |->
                                   NewModel(schema, documents[i], OwnId(i))])
    /\ pc' = "done"
    /\ UNCHANGED <<registryVars, analyzerVars, pluginVars, schema, options, env, factoryVars, ctx, thrown, op, documents,
                   cur, fieldIdx, genLog, persistVars, relVars, firstOut>>

\* create: generateDocuments has returned, persistDocuments begins
PersistDocuments ==
    /\ pc = "loop" /\ op = "create"
    /\ Len(documents) >= count
    /\ batchStart' = 0
    /\ createdDocs' = <<>>
    /\ persistErrs' = 0
    /\ pc' = "persist"
    /\ UNCHANGED <<registryVars, analyzerVars, pluginVars, schema, options, env, factoryVars, ctx, thrown, op, documents,
                   cur, fieldIdx, genLog, db, relVars, result, firstOut>>

\* one turn of bulkCreate's loop: insertMany(batch, {ordered: true}).  A
\* rejected insert is rethrown (continueOnError is false), caught by
\* persistDocuments, which records it and returns result.documents = [];
\* create then returns from that result.
InsertBatch ==
    /\ pc = "persist"
    /\ batchStart < Len(documents)
    /\ LET batch == Slice(documents, batchStart, BatchSize(options))
           saved == Inserted(schema, batch, Len(db))
       IN  \E accepted \in BOOLEAN :
             /\ accepted => \A i \in DOMAIN saved : Valid(schema, saved[i])
             /\ IF accepted
                THEN /\ createdDocs' = createdDocs \o saved
                     /\ db' = db \o saved
                     /\ batchStart' = batchStart + BatchSize(options)
                     /\ UNCHANGED <<persistErrs, pc, result>>
                ELSE /\ persistErrs' = Len(documents)
                     /\ result' = Unwrap(count, <<>>)
                     /\ pc' = "done"
                     /\ UNCHANGED <<createdDocs, db, batchStart>>
    /\ UNCHANGED <<registryVars, analyzerVars, pluginVars, schema, options, env, factoryVars, ctx, thrown, op, documents,
                   cur, fieldIdx, genLog, relVars, firstOut>>

\* bulkCreate's loop has ended: result.documents = createdDocs, and create
\* returns actualCount === 1 ? result.documents[0] : result.documents
ReturnCreate ==
    /\ pc = "persist"
    /\ batchStart >= Len(documents)
    /\ result' = Unwrap(count, createdDocs)
    /\ pc' = "done"
    /\ UNCHANGED <<registryVars, analyzerVars, pluginVars, schema, options, env, factoryVars, ctx, thrown, op, documents,
                   cur, fieldIdx, genLog, persistVars, relVars, firstOut>>

Configure ==
    \/ \E num \in -1..MaxCount : Count(num)
    \/ \E p \in OverridePairs : p[1] \in FieldNames(schema) /\ WithField(p[1], p[2])
    \/ \E f \in FieldNames(schema) : WithField(f, Undefined)
    \/ \E p \in OverridePairs :
          p[1] \in FieldNames(schema) /\ WithObject(p[1] :> p[2])
    \/ \E f \in RelationFields, n \in RelatedCounts :
          /\ f \in FieldNames(schema)
          /\ DOMAIN relations \subseteq {f}
          /\ WithRelated(f, n)
    \/ \E name \in TraitNames : Trait(name)

Run ==
    \/ StartDocument
    \/ VisitField
    \/ FinishDocument

Next ==
    \/ Configure
    \/ \E arg \in CountArgs : Build(arg)
    \/ \E arg \in CountArgs : Make(arg)
    \/ \E arg \in CountArgs : Create(arg)
    \/ Run
    \/ ReturnBuild
    \/ ReturnMake
    \/ PersistDocuments
    \/ InsertBatch
    \/ ReturnCreate

Spec == Init /\ [][Next]_vars

-----------------------------------------------------------------------------
(* Two runs of one build call.  FactoryPlugin.setSeed stores the seed in   *)
(* the plugin configuration; the second run is the same call on the same   *)
(* configuration, its result compared with the first.                      *)

\* FactoryPlugin.setSeed: updateConfig({ seed })
SetSeed(seed) ==
    /\ pc = "configured"
    /\ env' = [env EXCEPT !.seed = Arg(seed)]
    /\ UNCHANGED <<registryVars, analyzerVars, pluginVars, schema, options, factoryVars, ctx, thrown, runVars,
                   persistVars, relVars, result, firstOut>>

\* the same build(N) once more; the first result is kept for comparison
BuildAgain ==
    /\ pc = "done" /\ op = "build"
    /\ firstOut = NoResult
    /\ firstOut' = result
    /\ result' = NoResult
    /\ documents' = <<>>
    /\ genLog' = <<>>
    /\ pc' = "loop"
    /\ UNCHANGED <<registryVars, analyzerVars, pluginVars, schema, options, env, factoryVars, ctx, thrown, op, cur,
                   fieldIdx, persistVars, relVars>>

NextDet ==
    \/ Configure
    \/ \E seed \in Seeds : SetSeed(seed)
    \/ \E arg \in CountArgs : Build(arg)
    \/ Run
    \/ ReturnBuild
    \/ BuildAgain

SpecDet == Init /\ [][NextDet]_vars

\* create() as the event loop runs it: the awaited insertMany settles, so
\* the insert loop takes its turn, and create returns when the loop has
\* ended.  A batch the schema rejects is rejected; no insert of a batch the
\* schema accepts is ever bound to be rejected.
BatchValid ==
    LET batch == Slice(documents, batchStart, BatchSize(options))
        saved == Inserted(schema, batch, Len(db))
    IN  \A i \in DOMAIN saved : Valid(schema, saved[i])

InsertSettles == InsertBatch /\ (BatchValid => pc' = "persist")

InitLive == Init /\ schema = <<NameP, RoleP, IdPath, VersionPath>>

SpecLive ==
    InitLive /\ [][Next]_vars /\ WF_vars(InsertSettles) /\ WF_vars(ReturnCreate)

-----------------------------------------------------------------------------
(* The operations of the registry.  Each is one call; the factory is idle. *)

\* register(name, new MongooseStringGenerator(), config?)
Register(name, config) ==
    LET generator == Generator(name, "MongooseStringGenerator", "String", 10)
    IN  /\ generators' =
              MapSet(generators, IF config = Undefined THEN generator
                                 ELSE GeneratorUpdateConfig(generator, config))
        /\ generatorConfigs' = IF config = Undefined THEN generatorConfigs
                               ELSE (name :> config) @@ generatorConfigs
        /\ fieldTypeCache' = ClearCache(fieldTypeCache)
        /\ answer' = [NoAnswer EXCEPT !.call = "register", !.ok = TRUE]
        /\ UNCHANGED <<initialized, analyzerVars, pluginVars, schema, options, env, factoryVars,
                       ctx, thrown, runVars, persistVars, relVars, result, firstOut>>

\* remove(name)
Remove(name) ==
    LET removed == MapHas(generators, name)
    IN  /\ IF removed
           THEN /\ generators' = MapDelete(generators, name)
                /\ generatorConfigs' = Delete(generatorConfigs, name)
                /\ fieldTypeCache' = ClearCache(fieldTypeCache)
           ELSE UNCHANGED <<generators, generatorConfigs, fieldTypeCache>>
        /\ answer' = [NoAnswer EXCEPT !.call = "remove", !.ok = removed]
        /\ UNCHANGED <<initialized, analyzerVars, pluginVars, schema, options, env, factoryVars,
                       ctx, thrown, runVars, persistVars, relVars, result, firstOut>>

\* clear()
Clear ==
    /\ generators' = <<>>
    /\ generatorConfigs' = EmptyObject
    /\ fieldTypeCache' = ClearCache(fieldTypeCache)
    /\ initialized' = FALSE
    /\ answer' = [NoAnswer EXCEPT !.call = "clear", !.ok = TRUE]
    /\ UNCHANGED <<analyzerVars, pluginVars, schema, options, env, factoryVars, ctx, thrown,
                   runVars, persistVars, relVars, result, firstOut>>

\* setEnabled(name, enabled)
SetEnabled(name, enabled) ==
    LET found == MapHas(generators, name)
    IN  /\ IF found
           THEN /\ generators' = [i \in DOMAIN generators |->
                                    IF generators[i].name = name
                                    THEN [generators[i] EXCEPT !.enabled = enabled]
                                    ELSE generators[i]]
                /\ fieldTypeCache' = ClearCache(fieldTypeCache)
           ELSE UNCHANGED <<generators, fieldTypeCache>>
        /\ answer' = [NoAnswer EXCEPT !.call = "setEnabled", !.ok = found]
        /\ UNCHANGED <<generatorConfigs, initialized, analyzerVars, pluginVars, schema, options,
                       env, factoryVars, ctx, thrown, runVars, persistVars, relVars,
                       result, firstOut>>

\* updateConfig(name, config)
UpdateConfig(name, config) ==
    LET found == MapHas(generators, name)
        existingConfig == IF HasOwn(generatorConfigs, name)
                          THEN generatorConfigs[name] ELSE EmptyObject
    IN  /\ IF found
           THEN /\ generatorConfigs' =
                      (name :> Assign(existingConfig, config)) @@ generatorConfigs
                /\ generators' = [i \in DOMAIN generators |->
                                    IF generators[i].name = name
                                    THEN GeneratorUpdateConfig(generators[i], config)
                                    ELSE generators[i]]
                /\ fieldTypeCache' = ClearCache(fieldTypeCache)
           ELSE UNCHANGED <<generators, generatorConfigs, fieldTypeCache>>
        /\ answer' = [NoAnswer EXCEPT !.call = "updateConfig", !.ok = found]
        /\ UNCHANGED <<initialized, analyzerVars, pluginVars, schema, options, env, factoryVars,
                       ctx, thrown, runVars, persistVars, relVars, result, firstOut>>

\* getAll(fieldType) as a call of its own (call = "getAll"), and
\* getBest(fieldType, constraints), which calls it and selects (call = "getBest")
GetAllCached(call, fieldType, cons) ==
    LET registry == EnsureInitialized
        cached   == HasOwn(registry.fieldTypeCache, fieldType)
        matchingGenerators ==
            IF cached THEN registry.fieldTypeCache[fieldType]
            ELSE GetAll(registry.generators, fieldType)
    IN  /\ generators' = registry.generators
        /\ initialized' = TRUE
        /\ fieldTypeCache' =
              IF cached THEN registry.fieldTypeCache
              ELSE (fieldType :> matchingGenerators) @@ registry.fieldTypeCache
        /\ answer' = [call |-> call, fieldType |-> fieldType, cons |-> cons,
                      all |-> matchingGenerators,
                      gen |-> IF call = "getBest"
                              THEN SelectBest(matchingGenerators, fieldType, cons)
                              ELSE NoGenerator,
                      ok |-> TRUE]
        /\ UNCHANGED <<generatorConfigs, analyzerVars, pluginVars, schema, options, env,
                       factoryVars, ctx, thrown, runVars, persistVars, relVars,
                       result, firstOut>>

NextRegistry ==
    \/ \E name \in RegistryNames, config \in RegisterConfigs :
          Register(name, config)
    \/ \E name \in RegistryNames : Remove(name)
    \/ Clear
    \/ \E name \in RegistryNames, enabled \in BOOLEAN : SetEnabled(name, enabled)
    \/ \E name \in RegistryNames, config \in GeneratorConfigs :
          UpdateConfig(name, config)
    \/ \E fieldType \in FieldTypes :
          GetAllCached("getAll", fieldType, NoConstraints)
    \/ \E fieldType \in FieldTypes, cons \in QueryConstraints :
          GetAllCached("getBest", fieldType, cons)

\* the registry, and the analyzer, apart from any factory run: one factory,
\* left idle
InitIdle ==
    /\ Init
    /\ schema = <<AgeP, IdPath, VersionPath>>
    /\ ~options.hasBatchSize

SpecRegistry == InitIdle /\ [][NextRegistry]_vars

-----------------------------------------------------------------------------
(* The analyzer's analyze(), one step per path of the schema being         *)
(* analyzed; a path that carries a schema makes the nested call.           *)

\* analyze(schema, modelName, options), called from outside
AnalyzeCall(schemaObject, modelName, analysisOptions) ==
    LET cacheKey == GenerateCacheKey(schemaObject, modelName, analysisOptions)
    IN  /\ frames = <<>>
        /\ IF analysisOptions.enableCaching /\ cacheKey \in DOMAIN analysisCache
           THEN /\ analysis' = [status |-> "returned", request |-> schemaObject,
                                result |-> analysisCache[cacheKey]]
                /\ UNCHANGED frames
           ELSE /\ frames' = <<Frame(schemaObject, modelName, analysisOptions)>>
                /\ analysis' = [NoAnalysis EXCEPT !.status = "running",
                                                  !.request = schemaObject]
        /\ UNCHANGED <<analysisCache, registryVars, pluginVars, schema, options, env,
                       factoryVars, ctx, thrown, runVars, persistVars, relVars,
                       result, firstOut>>

\* analyzeFields: the callback of eachPath for the next path, with
\* analyzeField and the analyzeNestedSchema call it makes
AnalyzePath ==
    LET frame == frames[Len(frames)]
        st    == SchemaObjects[frame.schema][frame.path]
        Visited(nestedSchema) ==
            [frame EXCEPT
               !.path = @ + 1,
               !.fields = Append(@, [analysis |-> AnalyzeField(st),
                                     nestedSchema |-> nestedSchema]),
               !.nestedSchemas = IF nestedSchema = 0 THEN @
                                 ELSE Append(@, nestedSchema)]
        nestedOptions == NestedOptions(frame.options)
        cacheKey == GenerateCacheKey(st.schema, "", nestedOptions)
    IN  /\ frames # <<>>
        /\ frame.path <= Len(SchemaObjects[frame.schema])
        /\ IF st.path = "_id" \/ st.path = "__v"
           THEN /\ frames' = [frames EXCEPT ![Len(frames)].path = @ + 1]
                /\ UNCHANGED analysis
           ELSE IF st.schema = 0
           THEN /\ frames' = [frames EXCEPT ![Len(frames)] = Visited(0)]
                /\ UNCHANGED analysis
           ELSE IF nestedOptions.enableCaching /\ cacheKey \in DOMAIN analysisCache
           THEN /\ frames' = [frames EXCEPT ![Len(frames)] =
                                 Visited(analysisCache[cacheKey].schema)]
                /\ UNCHANGED analysis
           ELSE IF Len(frames) < MaxFrames
           THEN /\ frames' = Append(frames, Frame(st.schema, "", nestedOptions))
                /\ UNCHANGED analysis
           ELSE /\ frames' = <<>>
                /\ analysis' = [analysis EXCEPT !.status = "RangeError"]
        /\ UNCHANGED <<analysisCache, registryVars, pluginVars, schema, options, env,
                       factoryVars, ctx, thrown, runVars, persistVars, relVars,
                       result, firstOut>>

\* the end of analyze: calculateMetadata, the cache, the return to the caller
AnalyzeReturn ==
    LET frame  == frames[Len(frames)]
        caller == frames[Len(frames) - 1]
        st     == SchemaObjects[caller.schema][caller.path]
        value  == AnalysisResult(frame.schema, frame.modelName, frame.fields,
                                 frame.nestedSchemas)
    IN  /\ frames # <<>>
        /\ frame.path > Len(SchemaObjects[frame.schema])
        /\ analysisCache' =
              IF frame.options.enableCaching
              THEN (GenerateCacheKey(frame.schema, frame.modelName, frame.options)
                      :> value) @@ analysisCache
              ELSE analysisCache
        /\ IF Len(frames) = 1
           THEN /\ frames' = <<>>
                /\ analysis' = [analysis EXCEPT !.status = "returned",
                                                !.result = value]
           ELSE /\ frames' =
                      [SubSeq(frames, 1, Len(frames) - 1) EXCEPT
                         ![Len(frames) - 1] =
                            [caller EXCEPT
                               !.path = @ + 1,
                               !.fields = Append(@, [analysis |-> AnalyzeField(st),
                                                     nestedSchema |-> value.schema]),
                               !.nestedSchemas = Append(@, value.schema)]]
                /\ UNCHANGED analysis
        /\ UNCHANGED <<registryVars, pluginVars, schema, options, env, factoryVars, ctx,
                       thrown, runVars, persistVars, relVars, result, firstOut>>

NextAnalyzer ==
    \/ \E schemaObject \in DOMAIN SchemaObjects, modelName \in ModelNames,
          analysisOptions \in AnalysisOptionsGiven :
          AnalyzeCall(schemaObject, modelName, analysisOptions)
    \/ AnalyzePath
    \/ AnalyzeReturn

SpecAnalyzer == InitIdle /\ [][NextAnalyzer]_vars

-----------------------------------------------------------------------------
(* The builder's chainable calls on one factory, before any run. *)

TraitChoices == {"admin", "verified", "premium"}

NextBuilder ==
    \/ \E num \in -1..MaxCount : Count(num)
    \/ \E p \in OverridePairs : p[1] \in FieldNames(schema) /\ WithField(p[1], p[2])
    \/ \E f \in FieldNames(schema) : WithField(f, Undefined)
    \/ \E n \in RelatedCounts : WithRelated("age", n)
    \/ \E name \in TraitChoices : Trait(name)

SpecBuilder == InitIdle /\ [][NextBuilder]_vars

-----------------------------------------------------------------------------
(* The relationship manager of one factory, asked for referenced documents  *)
(* call after call: the builder is reusable, so withRelated may name        *)
(* another count before the next create().                                  *)

MaxCollection == 5       \* the referenced collection grows no further

\* getReferencedDocuments(model, count, fieldName, context), model resolved
GetReferencedDocumentsCall(fieldName, n) ==
    /\ pc = "configured"
    /\ \E r \in GetReferencedDocuments(env, refDb, relCache, n, fieldName) :
          /\ Len(r.coll) <= MaxCollection
          /\ refDb' = r.coll
          /\ relCache' = r.cache
          /\ stitched' = [key |-> CacheKey("User", fieldName), count |-> n,
                          ok |-> r.ok, docs |-> r.docs]
    /\ UNCHANGED <<registryVars, analyzerVars, pluginVars, schema, options, env, factoryVars,
                   ctx, thrown, runVars, persistVars, result, firstOut>>

NextStitcher ==
    \E fieldName \in ReferringFields, n \in 1..MaxRelated :
        GetReferencedDocumentsCall(fieldName, n)

InitStitcher ==
    /\ Init
    /\ schema = <<ItemsP, RoleP, IdPath, VersionPath>>
    /\ env.userModel # "absent"
    /\ ~options.hasBatchSize

SpecStitcher == InitStitcher /\ [][NextStitcher]_vars

-----------------------------------------------------------------------------
(* The plugin manager.  Plugin options are their seed and locale; a call   *)
(* of initialize() or disable() that awaits is kept in `calls` with the    *)
(* place it will resume at.  Each initialize() call carries what it has    *)
(* done (did) and what the calls it overlaps with have done (peerDid).     *)

StillEnabled(p) == p

\* this.state.initialized = false
Disabled(p) == [p EXCEPT !.initialized = FALSE]

IsEnabled == plugin.initialized

InFlight(cs) == {i \in DOMAIN cs : cs[i].kind = "initialize"}

\* call i of cs performs steps: they are noted in it, and as done by a peer
\* in the other initialize() calls awaiting
Perform(cs, i, steps) ==
    [j \in DOMAIN cs |->
        IF j = i THEN [cs[j] EXCEPT !.did = @ \cup steps]
        ELSE IF cs[j].kind = "initialize"
             THEN [cs[j] EXCEPT !.peerDid = @ \cup steps]
             ELSE cs[j]]

RemoveCall(cs, i) == SubSeq(cs, 1, i - 1) \o SubSeq(cs, i + 1, Len(cs))

\* initialized = true; await runHook("onPluginInitialized"): the hook, when
\* registered, is called before the await
Complete(p, cs, i) ==
    [plugin |-> [p EXCEPT !.initialized = TRUE],
     calls  |-> Perform([cs EXCEPT ![i].pc = "hooked"], i,
                        IF p.hooks THEN {"hook"} ELSE {})]

\* initialize(options) up to its first await
InitializeEntry(p, cs, opts) ==
    IF p.initialized
    THEN [plugin |-> p, calls |-> cs, started |-> FALSE]
    ELSE LET call == [kind |-> "initialize", options |-> opts,
                      pc |-> IF opts.locale # "" THEN "locale" ELSE "seed",
                      did |-> {},
                      peerDid |-> UNION {cs[i].did : i \in InFlight(cs)}]
             cs1 == Perform(Append(cs, call), Len(cs) + 1, {"config"})
             p1  == [p EXCEPT !.config = MergeWithDefaults(opts)]
         IN  IF opts.locale # "" \/ opts.hasSeed
             THEN [plugin |-> p1, calls |-> cs1, started |-> TRUE]
             ELSE [plugin |-> Complete(p1, cs1, Len(cs1)).plugin,
                   calls  |-> Complete(p1, cs1, Len(cs1)).calls,
                   started |-> TRUE]

\* this.state.generators.initialize() of a call that went past the check
RegistryInitialize(started) ==
    IF started
    THEN /\ generators' = EnsureInitialized.generators
         /\ fieldTypeCache' = EnsureInitialized.fieldTypeCache
         /\ initialized' = TRUE
         /\ UNCHANGED <<generatorConfigs, answer>>
    ELSE UNCHANGED registryVars

idleVars == <<analyzerVars, schema, options, env, factoryVars, ctx, thrown,
              runVars, persistVars, relVars, result, firstOut>>

\* pluginManager.initialize(options)
Initialize(opts) ==
    LET r == InitializeEntry(plugin, calls, opts)
    IN  /\ Len(r.calls) <= MaxCalls
        /\ plugin' = r.plugin
        /\ calls' = r.calls
        /\ RegistryInitialize(r.started)
        /\ UNCHANGED idleVars

\* enable(): await this.initialize(this.state.config)
Enable ==
    LET r == InitializeEntry(plugin, calls, plugin.config)
    IN  /\ Len(r.calls) <= MaxCalls
        /\ plugin' = r.plugin
        /\ calls' = r.calls
        /\ RegistryInitialize(r.started)
        /\ UNCHANGED idleVars

\* mongooseTestFactory(schema, options): initialize(options) unless enabled,
\* not awaited, then applyToSchema(schema, options)
MongooseTestFactory(sch, opts) ==
    LET r == IF IsEnabled
             THEN [plugin |-> plugin, calls |-> calls, started |-> FALSE]
             ELSE InitializeEntry(plugin, calls, opts)
    IN  /\ Len(r.calls) <= MaxCalls
        /\ plugin' = [r.plugin EXCEPT !.schemas = @ \cup {sch}]
        /\ calls' = r.calls
        /\ RegistryInitialize(r.started)
        /\ UNCHANGED idleVars

\* an initialize() call resumes after `await import(...)` or the hook
InitializeResume(i) ==
    /\ i \in DOMAIN calls
    /\ calls[i].kind = "initialize"
    /\ CASE calls[i].pc = "locale" ->
              \* faker.constructor(options.locale) returns or throws
              \E returns \in BOOLEAN :
                 IF ~returns
                 THEN /\ calls' = RemoveCall(calls, i)
                      /\ UNCHANGED plugin
                 ELSE IF calls[i].options.hasSeed
                      THEN /\ calls' = [calls EXCEPT ![i].pc = "seed"]
                           /\ UNCHANGED plugin
                      ELSE /\ plugin' = Complete(plugin, calls, i).plugin
                           /\ calls' = Complete(plugin, calls, i).calls
         [] calls[i].pc = "seed" ->
              \* faker.seed(options.seed) when a seed is given
              LET cs == IF calls[i].options.hasSeed
                        THEN Perform(calls, i, {"seed"}) ELSE calls
              IN  /\ plugin' = Complete(plugin, cs, i).plugin
                  /\ calls' = Complete(plugin, cs, i).calls
         [] OTHER ->
              /\ calls' = RemoveCall(calls, i)
              /\ UNCHANGED plugin
    /\ UNCHANGED <<registryVars, idleVars>>

\* disable() up to `await this.runHook("onPluginDisabled")`
Disable ==
    /\ IF ~plugin.initialized
       THEN UNCHANGED calls
       ELSE /\ Len(calls) < MaxCalls
            /\ calls' = Append(calls, [kind |-> "disable", options |-> NoPluginOptions,
                                       pc |-> "disabling", did |-> {}, peerDid |-> {}])
    /\ UNCHANGED <<plugin, registryVars, idleVars>>

\* disable() resumes: this.state.initialized = false
DisableResume(i) ==
    /\ i \in DOMAIN calls
    /\ calls[i].kind = "disable"
    /\ plugin' = Disabled(plugin)
    /\ calls' = RemoveCall(calls, i)
    /\ UNCHANGED <<registryVars, idleVars>>

\* reset()
Reset ==
    /\ plugin' = Disabled([plugin EXCEPT !.schemas = {}])
    /\ generators' = <<>>
    /\ generatorConfigs' = EmptyObject
    /\ fieldTypeCache' = ClearCache(fieldTypeCache)
    /\ initialized' = FALSE
    /\ UNCHANGED <<calls, answer, idleVars>>

\* registerHooks({ onPluginInitialized })
RegisterHooks ==
    /\ plugin' = [plugin EXCEPT !.hooks = TRUE]
    /\ UNCHANGED <<calls, registryVars, idleVars>>

NextPlugin ==
    \/ \E opts \in PluginOptionsGiven : Initialize(opts)
    \/ Enable
    \/ \E sch \in PluginSchemas, opts \in PluginOptionsGiven :
          MongooseTestFactory(sch, opts)
    \/ \E i \in 1..MaxCalls : InitializeResume(i)
    \/ Disable
    \/ \E i \in 1..MaxCalls : DisableResume(i)
    \/ Reset
    \/ RegisterHooks

SpecPlugin == InitIdle /\ [][NextPlugin]_vars

-----------------------------------------------------------------------------
(* Properties *)

Returned(name) == op = name /\ pc = "done" /\ result.status = "returned"
RequiredPaths  == {i \in DOMAIN schema : schema[i].required}
Generated(index, path) ==
    \E k \in DOMAIN genLog : genLog[k].index = index /\ genLog[k].field = path

NoSyncForm(gen) == ~gen.hasGenerateSync \/ gen.isAsync

RequiredFieldTotality ==
    (pc = "done" /\ result.status = "returned") =>
        \A i \in DOMAIN result.docs : \A p \in RequiredPaths :
            Get(result.docs[i], schema[p].path) \notin {Undefined, Null}

\* C5: every generated numeric value of a path that declares min / max lies,
\* in the finished record, within [min, max].
RangeContainment ==
    \A i \in DOMAIN documents : \A p \in DOMAIN schema :
        (/\ Generated(i - 1, schema[p].path)
         /\ Get(documents[i], schema[p].path).k = "number")
        => /\ schema[p].hasMin => Get(documents[i], schema[p].path).n >= schema[p].min
           /\ schema[p].hasMax => Get(documents[i], schema[p].path).n <= schema[p].max

\* C6: every value a generator produced for a path that declares an enum is
\* a member of that enum.
EnumClosure ==
    \A k \in DOMAIN genLog : \A p \in DOMAIN schema :
        (schema[p].path = genLog[k].field /\ schema[p].enum # <<>>)
        => \E e \in DOMAIN schema[p].enum : schema[p].enum[e] = genLog[k].value.s

\* C7: once an insert of create() has failed (continue-on-error is never
\* requested), create() does not return normally.
CreateAbortsOnInsertFailure ==
    (op = "create" /\ persistErrs > 0) => result.status # "returned"

\* C8: create() resolves to as many persisted records as its effective
\* count: one record, not a list, for 1; a list of exactly n for n > 1,
\* also when n exceeds the batch size.
CreateResolvesCount ==
    Returned("create") =>
        /\ count = 1 => result.shape = "single" /\ Len(result.docs) = 1
        /\ count > 1 => result.shape = "list" /\ Len(result.docs) = count
        /\ \A i \in DOMAIN result.docs :
              \E j \in DOMAIN db : db[j] = result.docs[i]

\* create() has resolved to a list of more records than one batch holds,
\* all persisted
CreateResolvesCountWitness ==
    /\ Returned("create")
    /\ count > BatchSize(options)
    /\ Len(result.docs) = count
    /\ persistErrs = 0

RelationshipLinkage ==
    (Returned("create") /\ result.docs # <<>>) =>
        \A f \in DOMAIN relations :
            relations[f] = MaxRelated =>
                \A i \in DOMAIN result.docs :
                    LET v == Get(result.docs[i], f)
                    IN  /\ v.k = "array"
                        /\ Len(v.ids) = MaxRelated
                        /\ \A a \in DOMAIN v.ids :
                              \E b \in DOMAIN refDb : refDb[b] = v.ids[a]

\* the schema declares no reference for the field (neither the path nor
\* its elements name a model), or the model named is not registered
Unresolvable(f) ==
    \/ ~HasPath(schema, f)
    \/ f \notin ReferringFields
    \/ env.userModel = "absent"

\* C11: when a field given to withRelated has no relationship metadata in
\* the schema, or its target model cannot be resolved, stitching fails with
\* a RelationshipError naming the field: create() finishes no document, and
\* the error it ends with carries that field.
RelationshipErrorNamesField ==
    \A f \in DOMAIN relations :
        (op = "create" /\ Unresolvable(f)) =>
            /\ documents = <<>>
            /\ (pc = "done" /\ count > 0) =>
                  /\ result.status = "thrown"
                  /\ result.err.type = "RelationshipError" => result.err.field = f

\* stitching has failed for an unregistered target model, the error naming
\* the field
RelationshipErrorWitness ==
    /\ op = "create" /\ pc = "done"
    /\ env.userModel = "absent"
    /\ result.status = "thrown"
    /\ result.err.type = "RelationshipError"
    /\ result.err.field \in DOMAIN relations

UniquePaths == {i \in DOMAIN schema : schema[i].unique}

UpdatedNotBeforeCreated ==
    \A i \in DOMAIN documents :
        (/\ Generated(i - 1, "createdAt") /\ Generated(i - 1, "updatedAt")
         /\ Get(documents[i], "createdAt").k = "date"
         /\ Get(documents[i], "updatedAt").k = "date")
        => Get(documents[i], "updatedAt").n >= Get(documents[i], "createdAt").n

\* an enabled generator whose canHandle(fieldType, constraints) is true
Eligible(gen, fieldType, cons) == gen.enabled /\ CanHandle(gen, fieldType, cons)

\* C14: the generator getBest(fieldType, constraints) returns is enabled and
\* its canHandle(fieldType, constraints) is true, and when no registered
\* generator is both, getBest returns none.
GetBestReturnsEligible ==
    answer.call = "getBest" =>
        /\ answer.gen # NoGenerator =>
              Eligible(answer.gen, answer.fieldType, answer.cons)
        /\ (\A i \in DOMAIN generators :
               ~Eligible(generators[i], answer.fieldType, answer.cons))
           => answer.gen = NoGenerator

\* getBest has answered for a field type whose only candidate was disabled
GetBestDisabledWitness ==
    /\ answer.call = "getBest"
    /\ Len(answer.all) = 1
    /\ ~answer.all[1].enabled

\* C15: when several enabled generators can handle (fieldType, constraints),
\* getBest returns the first of them under descending (priority,
\* specificityScore), and of those equal in both the one registered first.
GetBestReturnsFirstInOrder ==
    answer.call = "getBest" =>
        LET able == SelectSeq(generators,
                        LAMBDA g : Eligible(g, answer.fieldType, answer.cons))
            Score(g) == GetSpecificityScore(g, answer.fieldType, answer.cons)
            Above(a, b) == \/ a.priority > b.priority
                           \/ a.priority = b.priority /\ Score(a) > Score(b)
        IN  Len(able) > 1 =>
                \E i \in DOMAIN able :
                    /\ answer.gen = able[i]
                    /\ \A j \in DOMAIN able : ~Above(able[j], able[i])
                    /\ \A j \in 1..(i - 1) : Above(able[i], able[j])

\* getBest has chosen among several enabled candidates
GetBestOrderingWitness ==
    /\ answer.call = "getBest"
    /\ Len(FilterEnabled(answer.all)) > 1
    /\ answer.gen # NoGenerator

\* C16: after any sequence of register, remove, setEnabled, updateConfig and
\* clear, getAll and getBest answer from the registry's current contents: a
\* list cached for a field type is the list of the generators now registered
\* that handle the type, and so is every list a query has just answered with.
CacheFollowsRegistry ==
    /\ \A fieldType \in DOMAIN fieldTypeCache :
          fieldTypeCache[fieldType] = GetAll(generators, fieldType)
    /\ answer.call \in {"getAll", "getBest"} =>
          /\ answer.all = GetAll(generators, answer.fieldType)
          /\ answer.gen = IF answer.call = "getBest"
                          THEN GetBest(generators, answer.fieldType, answer.cons)
                          ELSE NoGenerator

\* a query for Number is answered with no generator: the registry had been
\* initialized by an earlier query, which cached its list, and the default
\* number generator was removed or replaced after that
CacheFollowsRegistryWitness ==
    /\ answer.call \in {"getAll", "getBest"}
    /\ answer.fieldType = "Number"
    /\ answer.all = <<>>
    /\ "String" \in DOMAIN fieldTypeCache

\* C17: an analysis analyze(schema, modelName, options) returns is one of
\* the schema it was given, with caching enabled too: what the cache gives
\* back was computed for the same schema, never for a different one.
AnalysisOfGivenSchema ==
    analysis.status = "returned" => analysis.result.schema = analysis.request

\* analyze has returned with caching in use
AnalysisCachedWitness ==
    /\ analysis.status = "returned"
    /\ analysisCache # EmptyObject

\* C18: analyze(schema) ends on every schema, the self-referential ones
\* included: the nested analyze calls in progress are never more than the
\* maximum depth (5 when options.maxDepth is not given), and the call never
\* ends by exhausting the call stack.
AnalyzeDepthBounded ==
    /\ Len(frames) - 1 <= DefaultMaxDepth
    /\ analysis.status # "RangeError"

\* analyze is inside a nested call on the self-referential schema
AnalyzeNestedWitness ==
    /\ Len(frames) > 1
    /\ frames[1].schema = 3

\* C19: in every field analysis, autoGenerate is false whenever the field
\* declares a default value, required or not.
DefaultNeverAutoGenerated ==
    LET Holds(fields) ==
            \A i \in DOMAIN fields :
                fields[i].analysis.constraints.hasDefault
                    => ~fields[i].analysis.autoGenerate
    IN  /\ \A f \in DOMAIN frames : Holds(frames[f].fields)
        /\ \A key \in DOMAIN analysisCache : Holds(analysisCache[key].fields)
        /\ Holds(analysis.result.fields)

\* analyze has returned the analysis of a schema with a path that is
\* required and declares a default
DefaultNeverAutoGeneratedWitness ==
    /\ analysis.status = "returned"
    /\ \E i \in DOMAIN analysis.result.fields :
          /\ analysis.result.fields[i].analysis.required
          /\ analysis.result.fields[i].analysis.constraints.hasDefault
          /\ ~analysis.result.fields[i].analysis.autoGenerate

\* C20: in every record build() returns, a path of the schema that declares
\* a default value and was given no override holds the declared default.
BuildAppliesDefaults ==
    Returned("build") =>
        \A i \in DOMAIN result.docs : \A p \in DOMAIN schema :
            (schema[p].hasDefault /\ ~HasOwn(overrides, schema[p].path))
            => Get(result.docs[i], schema[p].path) = schema[p].default

\* build() has returned a record for a schema whose isActive path declares a
\* default, with no override of it
BuildAppliesDefaultsWitness ==
    /\ Returned("build")
    /\ result.docs # <<>>
    /\ HasPath(schema, "isActive")
    /\ ~HasOwn(overrides, "isActive")

\* C21: for a schema with an ObjectId reference path and an array path,
\* neither with a default nor overridden, build() returns, and every record
\* it returns holds an identifier at the reference path and an array at the
\* array path; the call does not fail for lack of a generator.
BuildFillsReferenceAndArray ==
    (/\ op = "build" /\ pc = "done"
     /\ HasPath(schema, "author") /\ HasPath(schema, "tags")
     /\ ~HasOwn(overrides, "author") /\ ~HasOwn(overrides, "tags"))
    => /\ result.status = "returned"
       /\ \A i \in DOMAIN result.docs :
             /\ Get(result.docs[i], "author").k = "objectid"
             /\ Get(result.docs[i], "tags").k = "array"

\* build() of one record or more has ended on such a schema
BuildReferenceAndArrayWitness ==
    /\ op = "build" /\ pc = "done"
    /\ HasPath(schema, "author") /\ HasPath(schema, "tags")
    /\ count > 0

\* C22: within one build(), make() or create() call the records are
\* generated in index order 0, 1, ... and, within one record, the fields in
\* the order the schema declares them: of two values generated, the earlier
\* one belongs to an earlier record, or to the same record and a path
\* declared earlier; the record being filled is the one after those done.
GenerationInOrder ==
    /\ \A i, j \in DOMAIN genLog :
          i < j =>
             \/ genLog[i].index < genLog[j].index
             \/ /\ genLog[i].index = genLog[j].index
                /\ PathIndex(schema, genLog[i].field)
                      < PathIndex(schema, genLog[j].field)
    /\ \A i \in DOMAIN genLog : genLog[i].index \in 0..Len(documents)
    /\ pc = "fields" => ctx.index = Len(documents)
    /\ \A i \in DOMAIN documents : i - 1 < count

\* a call has generated two fields of one record and a field of a later one
GenerationInOrderWitness ==
    \E i, j, k \in DOMAIN genLog :
        /\ i < j /\ j < k
        /\ genLog[i].index = genLog[j].index
        /\ genLog[i].field # genLog[j].field
        /\ genLog[j].index < genLog[k].index

\* C23: count(n) with n < 0, withRelated(field, n) with n < 0 and
\* with(field, undefined) with a string field are each rejected by an error
\* raised at that very call: the call ends with a FactoryError, stores
\* nothing in the builder and starts no generation.
InvalidArgumentsRejected ==
    [][ /\ \A num \in -1..MaxCount :
              (num < 0 /\ Count(num)) =>
                  /\ thrown' = "FactoryError: Count must be a positive number"
                  /\ UNCHANGED <<factoryVars, pc, op, result>>
        /\ \A f \in RelationFields : \A n \in RelatedCounts :
              (n < 0 /\ WithRelated(f, n)) =>
                  /\ thrown' = "FactoryError: Related count must be a positive number"
                  /\ UNCHANGED <<factoryVars, pc, op, result>>
        /\ \A f \in FieldNames(schema) :
              WithField(f, Undefined) =>
                  /\ thrown' = "FactoryError: Value must be provided when field is a string"
                  /\ UNCHANGED <<factoryVars, pc, op, result>>
      ]_vars

\* a builder call with a negative count has just been rejected, after an
\* earlier call had stored a count
InvalidArgumentsRejectedWitness ==
    /\ thrown = "FactoryError: Count must be a positive number"
    /\ pc = "configured"
    /\ count > 1

\* C24: trait(name) with a name already in the builder's trait list leaves
\* the list unchanged, and with a new name appends it: the list holds each
\* name once, in the order of first insertion.
TraitIdempotent ==
    [][ \A name \in TraitChoices :
           Trait(name) =>
              /\ IF \E i \in DOMAIN traits : traits[i] = name
                 THEN traits' = traits
                 ELSE traits' = Append(traits, name)
              /\ \A i, j \in DOMAIN traits' :
                    traits'[i] = traits'[j] => i = j
      ]_vars

\* two traits were applied, "verified" first
TraitIdempotentWitness ==
    /\ traits = <<"verified", "admin">>
    /\ pc = "configured"

\* create() has filled the fields of a record and is about to stitch its
\* relationship, and the referenced model is registered
AboutToStitch ==
    /\ op = "create" /\ pc = "fields"
    /\ fieldIdx > Len(Analyze(schema))
    /\ env.userModel # "absent"

\* C25: for a reference relationship and a count of 1 or more the stitcher
\* obtains exactly count target records, whatever number already exist: it
\* succeeds, the list it hands back has count entries, each a document of
\* the referenced collection, and documents are only added to the collection.
StitcherObtainsCount ==
    AboutToStitch =>
        \A f \in DOMAIN relations :
            relations[f] >= 1 =>
                \A r \in GetReferencedDocuments(env, refDb, relCache,
                                                relations[f], f) :
                    /\ r.ok
                    /\ Len(r.docs) = relations[f]
                    /\ \A a \in DOMAIN r.docs :
                          \E b \in DOMAIN r.coll : r.coll[b] = r.docs[a]
                    /\ SubSeq(r.coll, 1, Len(refDb)) = refDb

\* the stitcher has cached a list of MaxRelated target records, more than
\* the collection held at first
StitcherObtainsCountWitness ==
    /\ op = "create"
    /\ \E f \in DOMAIN relations :
          /\ HasOwn(relCache, CacheKey("User", f))
          /\ Len(relCache[CacheKey("User", f)]) = MaxRelated
    /\ Len(refDb) > MaxExisting

\* C26: a relationship cache entry is never invalidated: when a request for
\* a key that has a cache entry hands back records, they agree with the
\* cached records of the earlier request on the first positions, as many as
\* both lists have.
CacheEntryKept ==
    [][ \A fieldName \in ReferringFields : \A n \in 1..MaxRelated :
           LET key == CacheKey("User", fieldName)
           IN  (/\ GetReferencedDocumentsCall(fieldName, n)
                /\ HasOwn(relCache, key)
                /\ stitched'.key = key /\ stitched'.count = n
                /\ stitched'.ok)
               => \A i \in 1..Min(Len(relCache[key]), Len(stitched'.docs)) :
                     stitched'.docs[i] = relCache[key][i]
      ]_vars

\* a request for fewer records than the cache entry holds was served
CacheEntryKeptWitness ==
    /\ stitched.ok
    /\ HasOwn(relCache, stitched.key)
    /\ stitched.count < Len(relCache[stitched.key])
    /\ stitched.docs = SubSeq(relCache[stitched.key], 1, stitched.count)
    /\ stitched.count > 0

\* C27: on the create path the generated documents are handed to the
\* persistence sink once each and in index order: what has been inserted is
\* the documents before the batch start, in order, and nothing else; every
\* batch holds at most the configured batch size (100 by default) and
\* follows the one before.
SubmittedOnceInOrder ==
    /\ [](/\ Len(createdDocs) =
                 (IF batchStart < Len(documents) THEN batchStart ELSE Len(documents))
          /\ createdDocs =
                 Inserted(schema, SubSeq(documents, 1, Len(createdDocs)), 0)
          /\ (op = "create" /\ pc = "done" /\ result.status = "returned"
                  /\ persistErrs = 0)
             => Len(createdDocs) = Len(documents))
    /\ [][ /\ Len(createdDocs') - Len(createdDocs) <= BatchSize(options)
           /\ (pc = "persist" /\ pc' = "persist" /\ BatchSize(options) > 0)
              => createdDocs' =
                    createdDocs \o Inserted(schema,
                        SubSeq(documents, batchStart + 1, Len(createdDocs')),
                        Len(createdDocs))
       ]_vars

\* create(MaxCount) has returned after inserting in batches of SmallBatch
SubmittedOnceInOrderWitness ==
    /\ op = "create" /\ pc = "done"
    /\ options.hasBatchSize /\ options.batchSize = SmallBatch
    /\ Len(createdDocs) = MaxCount

\* C28: the batched insert loop of create() terminates for every document
\* list and every batch size the options accept: once persistence has
\* begun, create() comes to its end.  (With a batch size of 0 a turn of the
\* loop inserts the empty slice and leaves i where it was: the loop spins
\* without changing anything, which shows as stuttering at pc = "persist".)
InsertLoopTerminates == (pc = "persist") ~> (pc = "done")

\* the insert loop has ended after more than one turn
InsertLoopTerminatesWitness ==
    /\ op = "create" /\ pc = "done"
    /\ batchStart > SmallBatch
    /\ batchStart >= Len(documents)

\* C29: isEnabled() is false at first; it turns true only in a step of an
\* initialize() call (enable() makes one) that goes on to return without an
\* error; it is false right after every reset() and every disable() that
\* has run to its end; initialize() while enabled changes neither the
\* enabled state nor the stored configuration.
EnabledLifecycle ==
    /\ ~IsEnabled
    /\ [][ /\ (~plugin.initialized /\ plugin'.initialized) =>
                \E i \in DOMAIN calls' :
                    /\ calls'[i].kind = "initialize"
                    /\ calls'[i].pc = "hooked"
                    /\ (i \in DOMAIN calls => calls[i].pc # "hooked")
           /\ Reset => ~plugin'.initialized
           /\ \A i \in 1..MaxCalls : DisableResume(i) => ~plugin'.initialized
           /\ (Disable /\ ~plugin.initialized) => ~plugin'.initialized
           /\ \A opts \in PluginOptionsGiven :
                 (plugin.initialized /\ Initialize(opts)) =>
                     /\ plugin'.initialized
                     /\ plugin'.config = plugin.config
       ]_vars

\* the plugin was enabled by initialize({ seed }), and a disable() call is
\* waiting to end
EnabledLifecycleWitness ==
    /\ IsEnabled
    /\ plugin.config.hasSeed
    /\ \E i \in DOMAIN calls : calls[i].kind = "disable"

\* C30: when initialize() is called again before an earlier initialize()
\* call has ended, initialization is done at most once: no call sets the
\* configuration, applies the seed or runs the onPluginInitialized hook
\* when a call it overlaps with has done the same.
InitializedOnce ==
    \A i \in DOMAIN calls :
        calls[i].kind = "initialize" => calls[i].did \cap calls[i].peerDid = {}

\* two initialize() calls overlap
InitializedOnceWitness ==
    Cardinality(InFlight(calls)) = 2

====
